---- MODULE Spec2Model ----
(***************************************************************************)
(* Korone Down Meter (src/script.js): the probing pipeline of the page.    *)
(*                                                                         *)
(* State: the browser's localStorage (counter, last state, relay override, *)
(* last-checked time, snippet, history), the status label, and the check   *)
(* cycles (checkNow calls) that are suspended at an await.  Every          *)
(* JavaScript string is a TLA+ string; a JavaScript number that is stored  *)
(* or compared with a string (an HTTP status, the stored counter) is kept  *)
(* as its decimal string, converted with String and parseInt as the code   *)
(* converts it.  A value that may be absent (a missing key, a result       *)
(* without text) is <<>> when absent and <<v>> when present.               *)
(*                                                                         *)
(* The rendering glue that only paints the page (countEl, lastCheckedEl,   *)
(* debugEl, the chart) is left out; statusEl is kept because it carries    *)
(* the state a cycle ends in.                                              *)
(***************************************************************************)
EXTENDS Integers, Sequences, FiniteSets

VARIABLES
  localStorage,  \* key -> <<>> (no item) or <<value>>
  statusEl,      \* [state, text]: class and label set by setStatusLabel
  cyc,           \* slot -> the locals of a checkNow call suspended at an await
  clock,         \* the wall clock read by nowISO() and new Date()
  started,       \* number of checkNow calls made so far
  forced,        \* number of force-increment clicks so far
  boot,          \* the persisted last state and counter found at page load
  seen,          \* the states the cycles that probed the target ended in, in order
  last           \* what the most recently completed checkNow call did

vars == <<localStorage, statusEl, cyc, clock, started, forced, boot, seen, last>>

----------------------------------------------------------------------------
(* Bounds of the model *)

\* checkNow calls of a behaviour, with every input of the model
MaxCycles == 1

\* checkNow calls of a behaviour of SpecSeq
MaxSeqCycles == 2

\* force-increment clicks of a behaviour
MaxForce == 1

\* checkNow calls that can be suspended at the same time
NumSlots == 2

\* checkNow calls of a behaviour of SpecOverlap
MaxOverlap == 2

----------------------------------------------------------------------------
(* Program constants *)

DEFAULT_PROXY == "https://api.allorigins.win/raw?url="

BUILTIN_PROXIES ==
  << "https://api.allorigins.win/raw?url=",
     "https://cors.bridged.cc/",
     "https://thingproxy.freeboard.io/fetch/" >>

KEY_COUNT == "korone_down_count"
KEY_LAST_STATE == "korone_last_state"
KEY_PROXY == "korone_proxy"
KEY_LAST_CHECKED == "korone_last_checked"
KEY_SNIPPET == "korone_last_snippet"
KEY_HISTORY == "korone_history_v1"

Keys == {KEY_COUNT, KEY_LAST_STATE, KEY_PROXY, KEY_LAST_CHECKED, KEY_SNIPPET, KEY_HISTORY}

HISTORY_CAP == 1000

SNIPPET_MAX == 4000

DEFAULT_PHRASE == "site is currently down"

----------------------------------------------------------------------------
(* JavaScript string and number primitives.  Texts are ASCII: the ellipsis *)
(* of "Checking..." and the dash of the reset last-checked value are       *)
(* written in ASCII.                                                       *)

DigitChars == "0123456789"

CharAt(s, i) == SubSeq(s, i, i)

Min(a, b) == IF a < b THEN a ELSE b

\* the lower-case letter of each upper-case letter
LowerOf ==
  [A |-> "a", B |-> "b", C |-> "c", D |-> "d", E |-> "e", F |-> "f", G |-> "g",
   H |-> "h", I |-> "i", J |-> "j", K |-> "k", L |-> "l", M |-> "m", N |-> "n",
   O |-> "o", P |-> "p", Q |-> "q", R |-> "r", S |-> "s", T |-> "t", U |-> "u",
   V |-> "v", W |-> "w", X |-> "x", Y |-> "y", Z |-> "z"]

LowerChar(ch) == IF ch \in DOMAIN LowerOf THEN LowerOf[ch] ELSE ch

RECURSIVE Lower(_)
Lower(s) == IF Len(s) = 0 THEN "" ELSE LowerChar(Head(s)) \o Lower(Tail(s))

\* the lower-cased texts the model meets, computed once
LowerTable ==
  [s \in {"", "<h1>Welcome</h1>", "The Site Is Currently DOWN.", "Just a moment...",
          "site is currently down", "Moment", "https://k.io/", "FTP://k.io/",
          "k.io/?u=http://x"} |-> Lower(s)]

\* String.prototype.toLowerCase
toLowerCase(s) == IF s \in DOMAIN LowerTable THEN LowerTable[s] ELSE Lower(s)

\* String.prototype.includes
includes(s, sub) ==
  \E i \in 0..(Len(s) - Len(sub)) : SubSeq(s, i + 1, i + Len(sub)) = sub

RECURSIVE TrimStart(_)
TrimStart(s) == IF Len(s) > 0 /\ Head(s) = " " THEN TrimStart(Tail(s)) ELSE s

RECURSIVE TrimEnd(_)
TrimEnd(s) ==
  IF Len(s) > 0 /\ CharAt(s, Len(s)) = " " THEN TrimEnd(SubSeq(s, 1, Len(s) - 1)) ELSE s

\* String.prototype.trim (the only white space of the model is the blank)
trim(s) == TrimEnd(TrimStart(s))

\* String.prototype.slice(0, n)
slice(s, n) == SubSeq(s, 1, Min(Len(s), n))

StartsWith(s, p) == Len(s) >= Len(p) /\ SubSeq(s, 1, Len(p)) = p

IsDigit(ch) == \E d \in 1..10 : CharAt(DigitChars, d) = ch
DigitVal(ch) == (CHOOSE d \in 1..10 : CharAt(DigitChars, d) = ch) - 1

\* String(num) for an integer
RECURSIVE NatString(_)
NatString(n) ==
  IF n < 10 THEN CharAt(DigitChars, n + 1)
  ELSE NatString(n \div 10) \o CharAt(DigitChars, (n % 10) + 1)

String(n) == IF n < 0 THEN "-" \o NatString(0 - n) ELSE NatString(n)

\* the value of the longest prefix of digits of s, given the value acc read so far
RECURSIVE DigitsValue(_, _)
DigitsValue(s, acc) ==
  IF Len(s) = 0 \/ ~IsDigit(Head(s)) THEN acc
  ELSE DigitsValue(Tail(s), 10 * acc + DigitVal(Head(s)))

\* parseInt(v, 10): <<n>>, or <<>> for NaN
parseInt(v) ==
  LET t == trim(v)
      neg == Len(t) > 0 /\ Head(t) = "-"
      body == IF Len(t) > 0 /\ Head(t) \in {"-", "+"} THEN Tail(t) ELSE t
  IN IF Len(body) = 0 \/ ~IsDigit(Head(body)) THEN <<>>
     ELSE <<IF neg THEN 0 - DigitsValue(body, 0) ELSE DigitsValue(body, 0)>>

\* encodeURIComponent, on the characters the model's URLs are made of
EncodeChar(ch) ==
  CASE ch = ":" -> "%3A"
    [] ch = "/" -> "%2F"
    [] ch = " " -> "%20"
    [] OTHER -> ch

RECURSIVE encodeURIComponent(_)
encodeURIComponent(s) ==
  IF Len(s) = 0 THEN "" ELSE EncodeChar(Head(s)) \o encodeURIComponent(Tail(s))

\* the pattern without its anchor: http:// or https:// anywhere in the target
IsHttpUrl_Unanchored(target) ==
  LET t == toLowerCase(target)
  IN includes(t, "http://") \/ includes(t, "https://")

\* /^https?:\/\//i.test(target)
IsHttpUrl(target) ==
  LET t == toLowerCase(target)
  IN StartsWith(t, "http://") \/ StartsWith(t, "https://")

----------------------------------------------------------------------------
(* localStorage.  The functions take the store they act on, so that a      *)
(* handler's writes can be chained in program order.                       *)

getItem(ls, key) == ls[key]
setItem(ls, key, value) == [ls EXCEPT ![key] = <<value>>]
removeItem(ls, key) == [ls EXCEPT ![key] = <<>>]

readNumber(ls, key, defaultVal) ==
  LET v == getItem(ls, key)
  IN IF v = <<>> \/ v[1] = "" THEN defaultVal
     ELSE LET n == parseInt(v[1])
          IN IF n = <<>> THEN defaultVal ELSE n[1]

saveNumber(ls, key, num) == setItem(ls, key, String(num))

readString(ls, key, defaultVal) ==
  LET v == getItem(ls, key)
  IN IF v = <<>> THEN defaultVal ELSE v[1]

saveString(ls, key, s) == setItem(ls, key, s)

nowISO == "T" \o String(clock)

toLocaleString == "L" \o String(clock)

----------------------------------------------------------------------------
(* The history item.  A stored history is [raw |-> text] for a text that   *)
(* JSON.stringify did not write, or [json |-> arr] for JSON.stringify(arr) *)
(* of an array of entries.                                                 *)

ArrayValue(items) == [type |-> "array", items |-> items]

JSON_stringify(arr) == [json |-> arr]

\* JSON.parse: the value parsed, or [type |-> "SyntaxError"] when it throws
JSON_parse(v) ==
  IF "json" \in DOMAIN v THEN ArrayValue(v.json)
  ELSE CASE v.raw = "[]" -> ArrayValue(<<>>)
         [] v.raw = "{}" -> [type |-> "object"]
         [] v.raw = "null" -> [type |-> "null"]
         [] v.raw = "42" -> [type |-> "number"]
         [] OTHER -> [type |-> "SyntaxError"]

\* a stored item is falsy when it is missing or the empty string
IsFalsyItem(item) == item = <<>> \/ item[1] = [raw |-> ""]

\* the cap cutting the newest entries: arr.splice(arr.length - n, n)
splice0_Tail(arr, n) == SubSeq(arr, 1, Len(arr) - n)

\* arr.splice(0, n)
splice0(arr, n) == SubSeq(arr, n + 1, Len(arr))

pushHistory(ls, entry) ==
  LET raw == getItem(ls, KEY_HISTORY)
      parsed == IF IsFalsyItem(raw) THEN ArrayValue(<<>>) ELSE JSON_parse(raw[1])
  IN IF parsed.type # "array"
     THEN ls   \* JSON.parse or arr.push threw: caught and logged
     ELSE LET arr == Append(parsed.items, entry)
              capped == IF Len(arr) > HISTORY_CAP
                        THEN splice0(arr, Len(arr) - HISTORY_CAP) ELSE arr
          IN setItem(ls, KEY_HISTORY, JSON_stringify(capped))

readHistory(ls) ==
  LET raw == getItem(ls, KEY_HISTORY)
      parsed == IF IsFalsyItem(raw) THEN ArrayValue(<<>>) ELSE JSON_parse(raw[1])
  IN IF parsed.type = "SyntaxError" THEN ArrayValue(<<>>) ELSE parsed

clearHistory(ls) == removeItem(ls, KEY_HISTORY)

\* updateChart maps over the history: hist.map throws unless hist is an array
updateChartThrows(ls) == readHistory(ls).type # "array"

----------------------------------------------------------------------------
(* The inputs of the model *)

\* targetInput.value
Targets == {"https://k.io/", " https://k.io/ ", "k.io/?u=http://x", "FTP://k.io/", ""}

\* phraseInput.value
PhraseInputs == {"", " ", " Moment "}

\* proxyInput.value
ProxyInputs == {"", " https://my.proxy/?u= "}

\* HTTP status codes a server or relay answers with
StatusCodes == {200, 204, 404, 503}

\* response bodies
Bodies == {"", "<h1>Welcome</h1>", "The Site Is Currently DOWN.", "Just a moment..."}

----------------------------------------------------------------------------
(* tryFetch and fetchTargetWithFallback *)

Slots == 1..NumSlots

IdleCycle ==
  [pc |-> "idle", id |-> 0, prevState |-> "", target |-> "", phrase |-> "",
   probeStart |-> "", tried |-> <<>>, proxies |-> <<>>, idx |-> 0, status |-> "",
   allThrew |-> TRUE, proxyToUse |-> <<>>]

\* the value tryFetch returns for a response: line 142
Response(code, text) ==
  [ok |-> code \in 200..299, status |-> String(code), text |-> <<text>>, error |-> <<>>]

\* the value tryFetch returns when fetch throws or is aborted: line 144
ErrorResult(err) ==
  [ok |-> FALSE, status |-> "error", text |-> <<>>, error |-> <<err>>]

AllFailed == [ok |-> FALSE, status |-> "all-failed", text |-> <<>>, error |-> <<>>]

\* typeof r.text === 'string'
HasTextString(r) == r.text # <<>>

\* the direct answer returned whenever there is a response, as a relay's is
DirectUsable_AnyResponse(r) == r.ok \/ HasTextString(r)

\* line 155: the direct answer is returned
DirectUsable(r) == r.ok /\ HasTextString(r)

\* line 173: a relay's answer is returned
ProxyUsable(r) == r.ok \/ HasTextString(r)

RECURSIVE AddBuiltins(_, _)
AddBuiltins(proxies, i) ==
  IF i > Len(BUILTIN_PROXIES) THEN proxies
  ELSE AddBuiltins(
         IF \E k \in 1..Len(proxies) : proxies[k] = BUILTIN_PROXIES[i]
         THEN proxies ELSE Append(proxies, BUILTIN_PROXIES[i]),
         i + 1)

\* the relay list without the built-in relays after the user's own
BuildProxies_NoBuiltins(proxyToUse, userProxy) ==
  IF userProxy # "" THEN <<userProxy>> ELSE <<DEFAULT_PROXY>>

\* the relay list with the built-in relays ahead of the user's own
BuildProxies_BuiltinsFirst(proxyToUse, userProxy) ==
  IF userProxy # "" /\ \A k \in 1..Len(BUILTIN_PROXIES) : BUILTIN_PROXIES[k] # userProxy
  THEN Append(BUILTIN_PROXIES, userProxy) ELSE BUILTIN_PROXIES

\* lines 160-165; proxyToUse is <<>> when the argument is not given
BuildProxies(proxyToUse, userProxy) ==
  LET p1 == IF proxyToUse # <<>> /\ proxyToUse[1] # "" THEN <<proxyToUse[1]>> ELSE <<>>
      p2 == IF userProxy # "" THEN Append(p1, userProxy) ELSE p1
      p3 == AddBuiltins(p2, 1)
  IN IF Len(p3) = 0 THEN <<DEFAULT_PROXY>> ELSE p3

ProxyAttempt(p, targetUrl) ==
  [method |-> "proxy", proxy |-> p, fetchUrl |-> p \o encodeURIComponent(targetUrl)]

\* fetchTargetWithFallback from the return of one tryFetch (r) on: either the
\* value it returns (done), or the call suspended at the next tryFetch (cy)
Fallback(cy, r, ls) ==
  IF cy.idx = 0
  THEN IF DirectUsable(r)
       THEN [done |-> TRUE, result |-> r, probe |-> "direct", tried |-> cy.tried]
       ELSE LET userProxy == trim(readString(ls, KEY_PROXY, ""))
                proxies == BuildProxies(cy.proxyToUse, userProxy)
            IN [done |-> FALSE,
                cy |-> [cy EXCEPT !.pc = "fetch", !.proxies = proxies, !.idx = 1,
                                  !.tried = Append(@, ProxyAttempt(proxies[1], cy.target))]]
  ELSE IF ProxyUsable(r)
       THEN [done |-> TRUE, result |-> r,
             probe |-> "proxy:" \o cy.proxies[cy.idx], tried |-> cy.tried]
       ELSE IF cy.idx < Len(cy.proxies)
            THEN [done |-> FALSE,
                  cy |-> [cy EXCEPT !.pc = "fetch", !.idx = @ + 1,
                                    !.tried = Append(@, ProxyAttempt(cy.proxies[cy.idx + 1],
                                                                     cy.target))]]
            ELSE [done |-> TRUE, result |-> AllFailed, probe |-> "none", tried |-> cy.tried]

----------------------------------------------------------------------------
(* checkNow *)

\* setStatusLabel: lines 65-71
StatusLabel(state, details) ==
  [className |-> "status " \o state,
   textContent |-> IF state = "up" THEN "UP"
                   ELSE IF state = "down" THEN "DOWN"
                   ELSE IF details # "" THEN details ELSE "Unknown"]

\* res.text as a truthy value: present and not empty
TextTruthy(res) == res.text # <<>> /\ res.text[1] # ""

\* line 201
Snippet(res) ==
  IF TextTruthy(res) THEN slice(res.text[1], SNIPPET_MAX)
  ELSE IF res.error # <<>> /\ res.error[1] # "" THEN res.error[1]
  ELSE "No response (status=" \o res.status \o ")"

\* the fetch-error branch taken for every answer that is not ok
IsFetchError_NotOk(res) == ~res.ok

\* the fetch-error branch taken for every answer without a body
IsFetchError_NoText(res) == ~TextTruthy(res)

\* the fetch-error branch never taken: every answer searched for the phrase
IsFetchError_Never(res) == FALSE

\* line 220: the fetch-error branch is taken
IsFetchError(res) == ~res.ok /\ ~TextTruthy(res)

\* texts that mark an interstitial challenge page
ChallengeSignatures == {"just a moment"}

HasChallengeSignature(text) ==
  \E sig \in ChallengeSignatures : includes(toLowerCase(text), sig)

\* the search without the two toLowerCase calls
Found_CaseSensitive(res, phrase) ==
  includes(IF TextTruthy(res) THEN res.text[1] ELSE "", phrase)

\* the search also taking a challenge page for the phrase
Found_OrChallenge(res, phrase) ==
  LET text == IF TextTruthy(res) THEN res.text[1] ELSE ""
  IN includes(toLowerCase(text), toLowerCase(phrase)) \/ HasChallengeSignature(text)

\* line 230
Found(res, phrase) ==
  includes(toLowerCase(IF TextTruthy(res) THEN res.text[1] ELSE ""), toLowerCase(phrase))

\* the counter bumped on every down observation
CountsDown_Always(prevState) == TRUE

\* only the edge from up to down counted
CountsDown_OnlyFromUp(prevState) == prevState = "up"

\* line 233: this observation is counted
CountsDown(prevState) == prevState # "down"

\* lines 198-248: checkNow from the return of fetchTargetWithFallback on
CheckNowRest(ls, cy, fb) ==
  LET res == fb.result
      snippet == Snippet(res)
      ls1 == saveString(ls, KEY_SNIPPET, snippet)
      ls2 == saveString(ls1, KEY_LAST_CHECKED, toLocaleString)
  IN IF IsFetchError(res)
     THEN LET count == readNumber(ls2, KEY_COUNT, 0)
              entry == [t |-> cy.probeStart, state |-> "unknown", count |-> count,
                        probe |-> fb.probe,
                        reason |-> IF res.error # <<>> /\ res.error[1] # ""
                                   THEN res.error[1] ELSE res.status]
          IN [ls |-> pushHistory(ls2, entry), entry |-> entry, state |-> "unknown",
              outcome |-> "fetch-error",
              label |-> StatusLabel("unknown", "Fetch error (" \o res.status \o ")")]
     ELSE LET found == Found(res, cy.phrase)
              ls3 == IF found
                     THEN saveString(
                            IF CountsDown(cy.prevState)
                            THEN saveNumber(ls2, KEY_COUNT, readNumber(ls2, KEY_COUNT, 0) + 1)
                            ELSE ls2,
                            KEY_LAST_STATE, "down")
                     ELSE saveString(ls2, KEY_LAST_STATE, "up")
              ls4 == saveString(ls3, KEY_SNIPPET,
                                IF snippet # "" THEN snippet ELSE "(empty response)")
              ls5 == saveString(ls4, KEY_LAST_CHECKED, toLocaleString)
              countNow == readNumber(ls5, KEY_COUNT, 0)
              state == IF found THEN "down" ELSE "up"
              entry == [t |-> cy.probeStart, state |-> state, count |-> countNow,
                        probe |-> fb.probe]
          IN [ls |-> pushHistory(ls5, entry), entry |-> entry, state |-> state,
              outcome |-> "classified", label |-> StatusLabel(state, "")]

NoResult == [ok |-> FALSE, status |-> "", text |-> <<>>, error |-> <<>>]

\* checkNow returns: the cycle of slot c is over; cy.allThrew tells whether every
\* attempt of the cycle threw or timed out
Finish(c, cy, fb) ==
  LET out == CheckNowRest(localStorage, cy, fb)
  IN /\ localStorage' = out.ls
     /\ statusEl' = out.label
     /\ cyc' = [cyc EXCEPT ![c] = IdleCycle]
     /\ seen' = Append(seen, out.state)
     /\ last' = [id |-> cy.id, outcome |-> out.outcome, state |-> out.state,
                 target |-> cy.target, prevState |-> cy.prevState, phrase |-> cy.phrase,
                 result |-> fb.result, probe |-> fb.probe, tried |-> fb.tried,
                 allThrew |-> cy.allThrew, before |-> localStorage]
     /\ UNCHANGED <<clock, started, forced, boot>>

\* a tryFetch of slot c returns r
Continue(c, r) ==
  LET cy == [cyc[c] EXCEPT !.allThrew = @ /\ r.error # <<>>]
      f == Fallback(cy, r, localStorage)
  IN IF f.done
     THEN Finish(c, cy, f)
     ELSE /\ cyc' = [cyc EXCEPT ![c] = f.cy]
          /\ UNCHANGED <<localStorage, statusEl, clock, started, forced, boot, seen, last>>

\* lines 184-197: a click on the check button, the 60 s timer or the page load
\* calls checkNow, which runs up to its first await
CheckNow(targetValue, phraseValue) ==
  LET prevState == readString(localStorage, KEY_LAST_STATE, "unknown")
      target == trim(targetValue)
      phrase == IF trim(phraseValue) # "" THEN trim(phraseValue) ELSE DEFAULT_PHRASE
  IN /\ started' = started + 1
     /\ IF ~IsHttpUrl(target)
        THEN /\ statusEl' = StatusLabel("unknown", "Invalid URL")
             /\ last' = [id |-> started + 1, outcome |-> "invalid", state |-> "unknown",
                         target |-> target, prevState |-> prevState, phrase |-> phrase,
                         result |-> NoResult, probe |-> "", tried |-> <<>>,
                         allThrew |-> FALSE, before |-> localStorage]
             /\ UNCHANGED <<localStorage, cyc, clock, forced, boot, seen>>
        ELSE /\ \E c \in Slots :
                  /\ cyc[c].pc = "idle"
                  /\ \A d \in Slots : d < c => cyc[d].pc # "idle"
                  /\ cyc' = [cyc EXCEPT ![c] =
                               [IdleCycle EXCEPT !.pc = "fetch", !.id = started + 1,
                                                 !.prevState = prevState, !.target = target,
                                                 !.phrase = phrase, !.probeStart = nowISO,
                                                 !.tried = <<[method |-> "direct"]>>]]
             /\ statusEl' = StatusLabel("unknown", "Checking...")
             /\ clock' = clock + 1
             /\ UNCHANGED <<localStorage, forced, boot, seen, last>>

(* tryFetch: lines 129-146 *)

\* fetch rejects: a network failure or a cross-origin rejection
FetchRejects(c) ==
  /\ cyc[c].pc = "fetch"
  /\ Continue(c, ErrorResult("TypeError: Failed to fetch"))

\* the 15 s timer fires while fetch is pending and aborts it
FetchAborts(c) ==
  /\ cyc[c].pc = "fetch"
  /\ Continue(c, ErrorResult("AbortError: The user aborted a request."))

\* fetch resolves with the response's status line and headers; the timer is cleared
FetchResolves(c, code) ==
  /\ cyc[c].pc = "fetch"
  /\ cyc' = [cyc EXCEPT ![c].pc = "text", ![c].status = String(code)]
  /\ UNCHANGED <<localStorage, statusEl, clock, started, forced, boot, seen, last>>

StatusCode(status) == parseInt(status)[1]

\* resp.text() resolves
TextResolves(c, text) ==
  /\ cyc[c].pc = "text"
  /\ Continue(c, Response(StatusCode(cyc[c].status), text))

\* resp.text() rejects: the body is taken to be empty
TextRejects(c) ==
  /\ cyc[c].pc = "text"
  /\ Continue(c, Response(StatusCode(cyc[c].status), ""))

----------------------------------------------------------------------------
(* The other handlers: lines 255-279 *)

\* the manual entry written with the counter as it was before the click
ForceIncrement_StaleCount ==
  LET cur == readNumber(localStorage, KEY_COUNT, 0)
      entry == [t |-> nowISO, state |-> "manual", count |-> cur, probe |-> "manual"]
  IN /\ forced < MaxForce
     /\ forced' = forced + 1
     /\ localStorage' = pushHistory(saveNumber(localStorage, KEY_COUNT, cur + 1), entry)
     /\ clock' = clock + 1
     /\ UNCHANGED <<statusEl, cyc, started, boot, seen, last>>

ForceIncrement ==
  LET cur == readNumber(localStorage, KEY_COUNT, 0)
      entry == [t |-> nowISO, state |-> "manual", count |-> cur + 1, probe |-> "manual"]
  IN /\ forced < MaxForce
     /\ forced' = forced + 1
     /\ localStorage' = pushHistory(saveNumber(localStorage, KEY_COUNT, cur + 1), entry)
     /\ clock' = clock + 1
     /\ UNCHANGED <<statusEl, cyc, started, boot, seen, last>>

\* the reset button, confirmed
Reset ==
  /\ localStorage' =
       clearHistory(
         saveString(
           saveString(
             saveString(saveNumber(localStorage, KEY_COUNT, 0), KEY_LAST_STATE, "unknown"),
             KEY_LAST_CHECKED, "--"),
           KEY_SNIPPET, "No snippet yet."))
  /\ UNCHANGED <<statusEl, cyc, clock, started, forced, boot, seen, last>>

\* proxyInput change or blur
ProxyChange(value) ==
  /\ localStorage' = saveString(localStorage, KEY_PROXY, trim(value))
  /\ UNCHANGED <<statusEl, cyc, clock, started, forced, boot, seen, last>>

----------------------------------------------------------------------------
(* The page after loading: what localStorage holds from earlier visits *)

InitCounts == {<<>>, <<"2">>}
InitLastStates == {<<>>, <<"up">>, <<"down">>, <<"unknown">>}
InitProxies == {<<"">>}
InitUserProxies == {<<"">>, <<"https://my.proxy/?u=">>, <<"https://cors.bridged.cc/">>}
InitHistories == {<<>>, <<[raw |-> "{bad"]>>, <<[raw |-> "null"]>>, <<JSON_stringify(<<>>)>>}

InitWith(counts, lastStates, proxies, histories) ==
  /\ \E count \in counts, lastState \in lastStates, proxy \in proxies,
        history \in histories :
       /\ localStorage = [k \in Keys |->
                            CASE k = KEY_COUNT -> count
                              [] k = KEY_LAST_STATE -> lastState
                              [] k = KEY_PROXY -> proxy
                              [] k = KEY_HISTORY -> history
                              [] OTHER -> <<>>]
       /\ boot = [lastState |-> readString(localStorage, KEY_LAST_STATE, "unknown"),
                  count |-> readNumber(localStorage, KEY_COUNT, 0)]
  /\ statusEl = StatusLabel("unknown", "No target set")
  /\ cyc = [c \in Slots |-> IdleCycle]
  /\ clock = 0
  /\ started = 0
  /\ forced = 0
  /\ seen = <<>>
  /\ last = [id |-> 0, outcome |-> "none", state |-> "unknown", target |-> "",
             prevState |-> "", phrase |-> "", result |-> NoResult, probe |-> "",
             tried |-> <<>>, allThrew |-> FALSE, before |-> localStorage]

Init == InitWith(InitCounts, InitLastStates, InitProxies, InitHistories)

\* the steps of the tryFetch calls in flight, with the answers drawn from codes and bodies
TryFetchSteps(codes, bodies) ==
  \/ \E c \in Slots : FetchRejects(c)
  \/ \E c \in Slots : FetchAborts(c)
  \/ \E c \in Slots, code \in codes : FetchResolves(c, code)
  \/ \E c \in Slots, text \in bodies : TextResolves(c, text)
  \/ \E c \in Slots : TextRejects(c)

\* the page: nothing keeps a checkNow call from starting while another is suspended
Next ==
  \/ \E targetValue \in Targets, phraseValue \in PhraseInputs :
       started < MaxCycles /\ CheckNow(targetValue, phraseValue)
  \/ TryFetchSteps(StatusCodes, Bodies)
  \/ ForceIncrement
  \/ Reset
  \/ \E value \in ProxyInputs : ProxyChange(value)

Spec == Init /\ [][Next]_vars

\* no checkNow call is suspended at an await
AllIdle == \A c \in Slots : cyc[c].pc = "idle"

\* check cycles alone, one at a time, with every input of the model
NextCycle ==
  \/ \E targetValue \in Targets, phraseValue \in PhraseInputs :
       started < MaxCycles /\ AllIdle /\ CheckNow(targetValue, phraseValue)
  \/ TryFetchSteps(StatusCodes, Bodies)

InitCycle == InitWith(InitCounts, InitLastStates, InitProxies, {<<>>})

SpecCycle == InitCycle /\ [][NextCycle]_vars

\* one check cycle with the timer of tryFetch: while a fetch is pending, the 15 s
\* timer set at line 133 fires in the end and aborts it; once the fetch has
\* resolved the timer is cleared (line 135), and whether and when the body
\* arrives is up to the network
SpecLive == InitCycle /\ [][NextCycle]_vars /\ \A c \in Slots : WF_vars(FetchAborts(c))

\* the inputs of the longer sequences of cycles: a valid and an invalid target, the
\* default phrase, and answers enough for a cycle to end up, down or unknown from
\* the direct request, from each relay, or from none
SeqTargets == {"https://k.io/", "k.io/?u=http://x"}
SeqPhraseInputs == {""}
SeqStatusCodes == {200, 503}
SeqBodies == {"", "The Site Is Currently DOWN."}

InitSeq == InitWith(InitCounts, InitLastStates, InitUserProxies, {<<>>})

\* sequences of check cycles, each started after the one before it has returned
NextSeq ==
  \/ \E targetValue \in SeqTargets, phraseValue \in SeqPhraseInputs :
       started < MaxSeqCycles /\ AllIdle /\ CheckNow(targetValue, phraseValue)
  \/ TryFetchSteps(SeqStatusCodes, SeqBodies)

SpecSeq == InitSeq /\ [][NextSeq]_vars

\* a history of n entries written on earlier visits
StoredEntry(i) == [t |-> "H" \o String(i), state |-> "up", count |-> 2, probe |-> "direct"]
StoredHistory(n) == <<JSON_stringify([i \in 1..n |-> StoredEntry(i)])>>

\* stored histories one entry short of the cap and at the cap
FullHistories == {StoredHistory(HISTORY_CAP - 1), StoredHistory(HISTORY_CAP)}

InitHistory == InitWith({<<"2">>}, {<<"up">>}, InitProxies, InitHistories \cup FullHistories)

\* the inputs of the cycles that fill the history: answers enough for a cycle to
\* end up, down or unknown
HistoryTargets == {"https://k.io/"}
HistoryStatusCodes == {200}
HistoryBodies == {"The Site Is Currently DOWN."}

\* everything that writes the history, over stored histories of every kind: check
\* cycles one at a time, and the force-increment button at any moment
NextHistory ==
  \/ \E targetValue \in HistoryTargets, phraseValue \in SeqPhraseInputs :
       started < MaxCycles /\ AllIdle /\ CheckNow(targetValue, phraseValue)
  \/ TryFetchSteps(HistoryStatusCodes, HistoryBodies)
  \/ ForceIncrement

SpecHistory == InitHistory /\ [][NextHistory]_vars

\* the page with its buttons: check cycles one at a time, and the force-increment
\* and reset buttons at any moment, also while a cycle awaits an answer
InitButtons == InitWith({<<"2">>}, {<<"up">>, <<"down">>}, InitProxies, {<<>>})

NextButtons ==
  \/ \E targetValue \in HistoryTargets, phraseValue \in SeqPhraseInputs :
       started < MaxCycles /\ AllIdle /\ CheckNow(targetValue, phraseValue)
  \/ TryFetchSteps(HistoryStatusCodes, HistoryBodies)
  \/ ForceIncrement
  \/ Reset

SpecButtons == InitButtons /\ [][NextButtons]_vars

\* check cycles that overlap: the check button or the timer calls checkNow while
\* earlier calls are suspended at an await
InitOverlap == InitWith({<<>>}, {<<>>, <<"up">>, <<"down">>}, InitProxies, {<<>>})

NextOverlap ==
  \/ \E targetValue \in HistoryTargets, phraseValue \in SeqPhraseInputs :
       started < MaxOverlap /\ CheckNow(targetValue, phraseValue)
  \/ TryFetchSteps(HistoryStatusCodes, HistoryBodies)

SpecOverlap == InitOverlap /\ [][NextOverlap]_vars

\* the second argument of fetchTargetWithFallback (line 148): not given, a relay
\* of the caller's own, or one of the built-in relays
ProxyArgs == {<<>>, <<"https://my.proxy/?u=">>, <<"https://cors.bridged.cc/">>}

\* a call fetchTargetWithFallback(targetUrl, proxyToUse) of a check cycle, suspended
\* at its direct request (line 154), with the argument and the stored relay
\* override drawn from their sets
InitRelays ==
  /\ \E lastState \in {<<>>, <<"up">>}, proxy \in InitUserProxies, proxyToUse \in ProxyArgs :
       /\ localStorage = [k \in Keys |->
                            CASE k = KEY_LAST_STATE -> lastState
                              [] k = KEY_PROXY -> proxy
                              [] OTHER -> <<>>]
       /\ cyc = [c \in Slots |->
                   IF c = 1
                   THEN [IdleCycle EXCEPT
                           !.pc = "fetch", !.id = 1,
                           !.prevState = readString(localStorage, KEY_LAST_STATE, "unknown"),
                           !.target = "https://k.io/", !.phrase = DEFAULT_PHRASE,
                           !.probeStart = "T0", !.tried = <<[method |-> "direct"]>>,
                           !.proxyToUse = proxyToUse]
                   ELSE IdleCycle]
  /\ boot = [lastState |-> readString(localStorage, KEY_LAST_STATE, "unknown"),
             count |-> readNumber(localStorage, KEY_COUNT, 0)]
  /\ statusEl = StatusLabel("unknown", "Checking...")
  /\ clock = 1
  /\ started = 1
  /\ forced = 0
  /\ seen = <<>>
  /\ last = [id |-> 0, outcome |-> "none", state |-> "unknown", target |-> "",
             prevState |-> "", phrase |-> "", result |-> NoResult, probe |-> "",
             tried |-> <<>>, allThrew |-> FALSE, before |-> localStorage]

NextRelays == TryFetchSteps(SeqStatusCodes, SeqBodies)

SpecRelays == InitRelays /\ [][NextRelays]_vars

----------------------------------------------------------------------------
(* What the claims speak of *)

\* the persisted down-counter and last state, as the page reads them
CounterOf(ls) == readNumber(ls, KEY_COUNT, 0)
LastStateOf(ls) == readString(ls, KEY_LAST_STATE, "unknown")
Counter == CounterOf(localStorage)
LastState == LastStateOf(localStorage)

\* the state before the i-th probing cycle of s: the one the cycle before it
\* ended in, or the persisted last state found at page load
Preceding(s, i) == IF i = 1 THEN boot.lastState ELSE s[i - 1]

\* the latest state other than unknown before the i-th probing cycle of s, or
\* the persisted last state found at page load
RECURSIVE PrecedingKnown(_, _)
PrecedingKnown(s, i) ==
  IF i = 1 THEN boot.lastState
  ELSE IF s[i - 1] # "unknown" THEN s[i - 1]
  ELSE PrecedingKnown(s, i - 1)

----------------------------------------------------------------------------
(* C1 *)

\* C1, as claimed: over check cycles that do not overlap, the counter has grown by
\* the number of cycles that ended down and whose immediately preceding cycle (or
\* the persisted last state, for the first) was not down.
C1_EdgeCountImmediate ==
  Counter = boot.count + Cardinality({i \in 1..Len(seen) :
                                        seen[i] = "down" /\ Preceding(seen, i) # "down"})

\* C1, amended: over check cycles that do not overlap, the counter has grown by the
\* number of cycles that ended down and whose latest preceding cycle that ended up or
\* down (or the persisted last state, when there is none) was not down; a cycle that
\* ends unknown neither counts nor ends a run of down cycles.
C1_EdgeCountKnown ==
  Counter = boot.count + Cardinality({i \in 1..Len(seen) :
                                        seen[i] = "down" /\ PrecedingKnown(seen, i) # "down"})

\* a run of two down cycles after an up state has been counted once
C1_Witness ==
  /\ boot.lastState = "up"
  /\ seen = <<"down", "down">>
  /\ Counter = boot.count + 1

----------------------------------------------------------------------------
(* C2 to C5: what a check cycle makes of the answer it used *)

\* the latest check cycle probed the target and has returned; last describes it,
\* and no later cycle has written to the store
CycleEnded == last.outcome \in {"fetch-error", "classified"}

\* the counter and the last state as they were persisted when that cycle returned,
\* before it wrote
CounterBefore == readNumber(last.before, KEY_COUNT, 0)
LastStateBefore == readString(last.before, KEY_LAST_STATE, "unknown")

\* the answer's status as a number, when it is one
HasNumericStatus(res) == parseInt(res.status) # <<>>
NumericStatus(res) == parseInt(res.status)[1]
IsServerError(res) == HasNumericStatus(res) /\ NumericStatus(res) \in 500..599

\* the answer's body, and whether it holds the phrase in any letter case
BodyOf(res) == IF res.text = <<>> THEN "" ELSE res.text[1]
BodyHasPhrase(res, phrase) == includes(toLowerCase(BodyOf(res)), toLowerCase(phrase))
StateByPhrase(res, phrase) == IF BodyHasPhrase(res, phrase) THEN "down" ELSE "up"

\* the label the page shows once the cycle has returned and none has started since
ShowsState(state) ==
  AllIdle => /\ statusEl.className = "status " \o state
             /\ state = "down" => statusEl.textContent = "DOWN"
             /\ state = "up" => statusEl.textContent = "UP"

\* C2, as claimed: a cycle whose answer has a status in 500..599 ends down whatever
\* the body is; with previous state up the counter grows by 1 and the persisted
\* last state becomes down.
C2_ServerErrorIsDown ==
  (CycleEnded /\ IsServerError(last.result)) =>
    /\ last.state = "down"
    /\ last.prevState = "up" => (Counter = CounterBefore + 1 /\ LastState = "down")

\* C2, amended: a cycle whose answer has a status in 500..599 ends unknown when the
\* body is empty, leaving counter and last state alone, down when the body holds the
\* phrase and up otherwise; when it ends down with previous state up the counter
\* grows by 1 and the persisted last state becomes down.
C2_ServerErrorByBody ==
  (CycleEnded /\ IsServerError(last.result)) =>
    /\ last.state = IF BodyOf(last.result) = "" THEN "unknown"
                    ELSE StateByPhrase(last.result, last.phrase)
    /\ ShowsState(last.state)
    /\ BodyOf(last.result) = "" => (Counter = CounterBefore /\ LastState = LastStateBefore)
    /\ (last.state = "down" /\ last.prevState = "up") =>
         (Counter = CounterBefore + 1 /\ LastState = "down")

\* a 503 answer with the phrase in its body, after an up state, has been counted
C2_Witness ==
  /\ last.result.status = "503"
  /\ last.prevState = "up"
  /\ last.state = "down"
  /\ LastState = "down"
  /\ Counter = boot.count + 1

\* C3: a cycle whose answer has status 200 and a body without a challenge-page
\* signature ends down if the body holds the configured phrase, in any letter case,
\* and up if it does not.
C3_OkByPhrase ==
  (CycleEnded /\ last.result.status = "200"
              /\ ~HasChallengeSignature(BodyOf(last.result))) =>
    /\ last.state = StateByPhrase(last.result, last.phrase)
    /\ LastState = last.state
    /\ ShowsState(last.state)

\* a 200 answer whose body holds the phrase in other letter cases ended down
C3_Witness ==
  /\ last.result.status = "200"
  /\ last.result.text = <<"The Site Is Currently DOWN.">>
  /\ last.phrase = DEFAULT_PHRASE
  /\ last.state = "down"

\* C4, as claimed: a cycle whose answer has status 200 and a body with a
\* challenge-page signature ends down, also when the body lacks the phrase.
C4_ChallengeIsDown ==
  (CycleEnded /\ last.result.status = "200"
              /\ HasChallengeSignature(BodyOf(last.result))) =>
    last.state = "down"

\* C4, amended: a cycle whose answer has status 200 and a body with a
\* challenge-page signature ends down only if the body also holds the configured
\* phrase, and up otherwise.
C4_ChallengeByPhrase ==
  (CycleEnded /\ last.result.status = "200"
              /\ HasChallengeSignature(BodyOf(last.result))) =>
    /\ last.state = StateByPhrase(last.result, last.phrase)
    /\ LastState = last.state
    /\ ShowsState(last.state)

\* a challenge page without the phrase ended up
C4_Witness ==
  /\ last.result.status = "200"
  /\ last.result.text = <<"Just a moment...">>
  /\ last.phrase = DEFAULT_PHRASE
  /\ last.state = "up"
  /\ LastState = "up"

\* the answer's status is a number other than 200 and outside 500..599
IsOtherStatus(res) ==
  /\ HasNumericStatus(res)
  /\ NumericStatus(res) # 200
  /\ NumericStatus(res) \notin 500..599

\* C5, as claimed: a cycle whose answer has a status that is neither 200 nor in
\* 500..599 ends unknown whatever the body holds, and leaves the persisted last
\* state and the counter as they were.
C5_OtherStatusIsUnknown ==
  (CycleEnded /\ IsOtherStatus(last.result)) =>
    /\ last.state = "unknown"
    /\ LastState = LastStateBefore
    /\ Counter = CounterBefore

\* C5, amended: a cycle whose answer has a status that is neither 200 nor in
\* 500..599 ends unknown exactly when the status is outside 200..299 and the body is
\* empty, and then leaves last state and counter alone; otherwise it ends down or up
\* by the phrase, the last state becomes that state and the counter grows by 1 when
\* the cycle ends down and the previous state was not down.
C5_OtherStatusByBody ==
  (CycleEnded /\ IsOtherStatus(last.result)) =>
    LET res == last.result
        state == IF NumericStatus(res) \notin 200..299 /\ BodyOf(res) = ""
                 THEN "unknown" ELSE StateByPhrase(res, last.phrase)
    IN /\ last.state = state
       /\ state = "unknown" => (LastState = LastStateBefore /\ Counter = CounterBefore)
       /\ state # "unknown" =>
            /\ LastState = state
            /\ Counter = CounterBefore + (IF state = "down" /\ last.prevState # "down"
                                          THEN 1 ELSE 0)

\* a 404 answer with a page in its body ended up
C5_Witness ==
  /\ last.result.status = "404"
  /\ last.result.text = <<"<h1>Welcome</h1>">>
  /\ last.state = "up"
  /\ LastState = "up"

----------------------------------------------------------------------------
(* C6 and C7: fetchTargetWithFallback *)

\* the attempt slot c waits for: 0 is the direct request, i the i-th relay
IsLastAttempt(cy) == cy.idx > 0 /\ cy.idx = Len(cy.proxies)

\* fetchTargetWithFallback of slot c moves on to its next attempt
NextAttempt(c) ==
  /\ cyc'[c].pc = "fetch"
  /\ cyc'[c].idx = cyc[c].idx + 1
  /\ Len(cyc'[c].tried) = Len(cyc[c].tried) + 1
  /\ last' = last

\* fetchTargetWithFallback of slot c returns the answer of the attempt it waited
\* for, of the given status, with the trail as it was
ReturnsAttempt(c, status) ==
  /\ cyc'[c].pc = "idle"
  /\ last'.id = cyc[c].id
  /\ last'.result.status = status
  /\ last'.result.text # <<>>
  /\ last'.probe = IF cyc[c].idx = 0 THEN "direct"
                   ELSE "proxy:" \o cyc[c].proxies[cyc[c].idx]
  /\ last'.tried = cyc[c].tried

\* an attempt of slot c completes with a response: its body is read
AttemptCompletes(c) == cyc[c].pc = "text" /\ cyc'[c] # cyc[c]

\* an attempt of slot c throws or times out
AttemptThrows(c) == cyc[c].pc = "fetch" /\ cyc'[c] # cyc[c] /\ cyc'[c].pc # "text"

\* C6, as claimed: an attempt that completes with a response (a status code and a
\* readable body) is usable, the direct one as well as a relay's: its answer is
\* returned and no later transport is attempted.
C6_AnyResponseReturned ==
  [][\A c \in Slots : AttemptCompletes(c) => ReturnsAttempt(c, cyc[c].status)]_vars

\* C6, amended: the direct attempt is usable only if it completes with a status in
\* 200..299, a relay attempt whenever it completes with a response; the answer of
\* the first usable attempt is returned and no later transport is attempted; after
\* an attempt that is not usable the next transport is attempted, and after the
\* last one the all-failed result is returned.
C6_FirstUsableReturned ==
  [][\A c \in Slots :
       /\ AttemptCompletes(c) =>
            IF cyc[c].idx = 0 /\ parseInt(cyc[c].status)[1] \notin 200..299
            THEN NextAttempt(c)
            ELSE ReturnsAttempt(c, cyc[c].status)
       /\ AttemptThrows(c) =>
            IF IsLastAttempt(cyc[c])
            THEN cyc'[c].pc = "idle" /\ last'.result.status = "all-failed"
            ELSE NextAttempt(c)]_vars

\* a direct attempt was passed over and the first relay's 503 answer was returned
C6_Witness ==
  /\ last.probe = "proxy:" \o BUILTIN_PROXIES[1]
  /\ last.result.status = "503"
  /\ last.result.text = <<"The Site Is Currently DOWN.">>
  /\ Len(last.tried) = 2

\* the relays a cycle goes through: the stored relay, when there is one, then the
\* built-in relays other than it
RelaysOf(ls) ==
  LET user == trim(readString(ls, KEY_PROXY, ""))
  IN IF user = "" THEN BUILTIN_PROXIES
     ELSE <<user>> \o SelectSeq(BUILTIN_PROXIES, LAMBDA p : p # user)

\* the trail of a cycle that tried the direct request and every relay
FullTrail(ls, encodedTarget) ==
  <<[method |-> "direct"]>> \o
  [i \in 1..Len(RelaysOf(ls)) |->
     [method |-> "proxy", proxy |-> RelaysOf(ls)[i],
      fetchUrl |-> RelaysOf(ls)[i] \o encodedTarget]]

\* the history entry the latest cycle wrote
LastEntry == LET items == readHistory(localStorage).items IN items[Len(items)]

\* C7: when every transport attempt of a cycle throws or times out, the result is
\* the failed all-failed result, the cycle ends unknown with reason all-failed,
\* the counter is as it was, and the trail holds one entry for the direct attempt
\* and one for each relay, in the order of the attempts.
C7_AllFailed ==
  (CycleEnded /\ last.allThrew) =>
    /\ ~last.result.ok
    /\ last.result.status = "all-failed"
    /\ last.probe = "none"
    /\ last.state = "unknown"
    /\ LastEntry.state = "unknown"
    /\ LastEntry.reason = "all-failed"
    /\ Counter = CounterBefore
    /\ LastState = LastStateBefore
    /\ last.target = "https://k.io/"
    /\ last.tried = FullTrail(last.before, "https%3A%2F%2Fk.io%2F")

\* the direct request and the three built-in relays all failed
C7_Witness ==
  /\ CycleEnded
  /\ last.allThrew
  /\ last.result.status = "all-failed"
  /\ Len(last.tried) = 4
  /\ Counter = boot.count

----------------------------------------------------------------------------
(* C8: the target's pattern *)

\* the target starts with http:// or https://, in any letter case
MatchesPattern(target) ==
  \E n \in {7, 8} :
    /\ Len(target) >= n
    /\ toLowerCase(SubSeq(target, 1, n)) \in {"http://", "https://"}

\* C8: a check cycle whose target does not match the pattern starts no transport
\* attempt, ends unknown, and leaves the store (counter, last state, history) as
\* it was.
C8_InvalidTarget ==
  /\ \A c \in Slots : cyc[c].pc # "idle" => MatchesPattern(cyc[c].target)
  /\ (last.id > 0 /\ last.id = started /\ ~MatchesPattern(last.target)) =>
       /\ last.outcome = "invalid"
       /\ last.tried = <<>>
       /\ AllIdle
       /\ localStorage = last.before
       /\ statusEl = [className |-> "status unknown", textContent |-> "Invalid URL"]

\* a target with http:// past its start was turned down
C8_Witness ==
  /\ last.outcome = "invalid"
  /\ last.id = started
  /\ last.target = "k.io/?u=http://x"
  /\ localStorage = last.before
  /\ AllIdle

----------------------------------------------------------------------------
(* C9 and C10: the history *)

\* the stored history is missing or is the JSON of a list of entries
HoldsList(ls) ==
  LET item == getItem(ls, KEY_HISTORY)
  IN item = <<>> \/ "json" \in DOMAIN item[1]

\* the entries the stored history holds
StoredList(ls) ==
  LET item == getItem(ls, KEY_HISTORY)
  IN IF item = <<>> THEN <<>> ELSE item[1].json

\* the last n entries of arr, or all of them when there are fewer
Newest(arr, n) == IF Len(arr) <= n THEN arr ELSE SubSeq(arr, Len(arr) - n + 1, Len(arr))

\* a step that calls pushHistory: a check cycle that probed the target returns, or
\* the force-increment button is clicked
Pushes == Len(seen') # Len(seen) \/ forced' # forced

\* C9: the stored history never holds more than 1000 entries, and after an
\* insertion into a stored list it is the newest 1000 of the entries it held
\* followed by the entry inserted: the oldest are the ones removed.
C9_HistoryCap ==
  [][/\ HoldsList(localStorage) => Len(StoredList(localStorage)) <= HISTORY_CAP
     /\ (Pushes /\ HoldsList(localStorage)) =>
          LET old == StoredList(localStorage)
              new == StoredList(localStorage')
              entry == new[Len(new)]
          IN /\ HoldsList(localStorage')
             /\ Len(new) >= 1 /\ Len(new) <= HISTORY_CAP
             /\ entry.count = CounterOf(localStorage')
             /\ entry.state = IF forced' # forced THEN "manual" ELSE last'.state
             /\ new = Newest(Append(old, entry), HISTORY_CAP)]_vars

\* a full history lost its oldest entry to a manual entry
C9_Witness ==
  /\ HoldsList(localStorage)
  /\ Len(StoredList(localStorage)) = HISTORY_CAP
  /\ StoredList(localStorage)[1] = StoredEntry(2)
  /\ StoredList(localStorage)[HISTORY_CAP].state = "manual"

\* the stored history is missing, or is a text that is not the JSON of an array
MissingOrMalformed(ls) == getItem(ls, KEY_HISTORY) = <<>> \/ ~HoldsList(ls)

\* C10: for a stored history that is missing or malformed, readHistory returns an
\* empty list and its caller updateChart meets no exception.
C10_MalformedReadsEmpty ==
  MissingOrMalformed(localStorage) =>
    /\ readHistory(localStorage) = ArrayValue(<<>>)
    /\ ~updateChartThrows(localStorage)

----------------------------------------------------------------------------
(* C11: the counter over cycles and buttons *)

\* a step in which a check cycle that probed the target returns; last' describes it
CycleEnds == Len(seen') = Len(seen) + 1

\* that cycle ended down, having read a previous state other than down
CountedCycleEnds == CycleEnds /\ last'.state = "down" /\ last'.prevState # "down"

\* C11, as claimed: over check cycles, force increments and resets the counter
\* never decreases, and each increase comes with a check cycle that ended down and
\* whose previous state was not down.
C11_MonotoneByCycles ==
  [][LET old == Counter
         new == CounterOf(localStorage')
     IN /\ new >= old
        /\ new > old => CountedCycleEnds]_vars

\* C11, amended: the counter decreases only by a reset, which sets it to 0; each
\* increase is by 1 and comes either with a check cycle that ended down and whose
\* previous state, read when the cycle started, was not down, or with a force
\* increment.
C11_MonotoneButReset ==
  [][LET old == Counter
         new == CounterOf(localStorage')
     IN /\ new < old =>
             /\ new = 0
             /\ LastStateOf(localStorage') = "unknown"
             /\ getItem(localStorage', KEY_HISTORY) = <<>>
             /\ ~CycleEnds /\ forced' = forced
        /\ new > old =>
             /\ new = old + 1
             /\ CountedCycleEnds \/ forced' = forced + 1]_vars

\* a counted down cycle and a force increment, then a reset
C11_Witness ==
  /\ boot.count = 2
  /\ last.state = "down"
  /\ last.prevState = "up"
  /\ forced = 1
  /\ Counter = 0

----------------------------------------------------------------------------
(* C12: the history entry of a check cycle *)

\* the history log as readHistory's callers see it: the entries of the stored
\* list, none when the stored value is missing or is not a list
LogOf(ls) == IF readHistory(ls).type = "array" THEN readHistory(ls).items ELSE <<>>

\* C12: every check cycle that passes the validation of the target and completes
\* appends exactly one entry to the history log, whatever the stored history held
\* before (nothing, a list, or malformed text); the entry's state is the state the
\* cycle ended in and its count is the persisted counter after the cycle.
C12_OneEntryPerCycle ==
  [][CycleEnds =>
       LET old == LogOf(localStorage)
           new == LogOf(localStorage')
       IN /\ Len(new) >= 1
          /\ new = Newest(Append(old, new[Len(new)]), HISTORY_CAP)
          /\ new[Len(new)].state = last'.state
          /\ new[Len(new)].count = CounterOf(localStorage')]_vars

----------------------------------------------------------------------------
(* C13: force increments and the history *)

\* the newest entry of a history log that is not empty carries the counter
LogMatchesCounter(ls) ==
  LogOf(ls) # <<>> => LogOf(ls)[Len(LogOf(ls))].count = readNumber(ls, KEY_COUNT, 0)

\* C13: a force increment adds one to the counter and appends one history entry
\* tagged manual; and over check cycles, force increments and resets, whenever
\* the history log is not empty its newest entry's count is the persisted counter.
C13_ForceIncrement ==
  [][/\ LogMatchesCounter(localStorage)
     /\ LogMatchesCounter(localStorage')
     /\ forced' # forced =>
          LET old == LogOf(localStorage)
              new == LogOf(localStorage')
          IN /\ CounterOf(localStorage') = Counter + 1
             /\ Len(new) = Len(old) + 1
             /\ SubSeq(new, 1, Len(old)) = old
             /\ new[Len(new)].state = "manual"
             /\ new[Len(new)].probe = "manual"
             /\ new[Len(new)].count = Counter + 1]_vars

\* a check cycle wrote its entry and a force increment wrote the next
C13_Witness ==
  /\ forced = 1
  /\ Len(LogOf(localStorage)) = 2
  /\ LogOf(localStorage)[1].state = "down"
  /\ LogOf(localStorage)[2].state = "manual"
  /\ LogOf(localStorage)[2].count = Counter
  /\ Counter = LogOf(localStorage)[1].count + 1

----------------------------------------------------------------------------
(* C14 and C19: the persisted last state after a cycle *)

\* the cycle before the latest one ended unknown, and the latest ended down
DownAfterUnknown ==
  /\ CycleEnded
  /\ Len(seen) >= 2
  /\ seen[Len(seen) - 1] = "unknown"
  /\ last.state = "down"

\* C14, as claimed: after a completed check cycle with a valid target the
\* persisted last state is the state the cycle ended in, unknown included, so
\* that of the cycles down, unknown, down the second down is counted again.
C14_LastStateIsClassification ==
  /\ CycleEnded => LastState = last.state
  /\ DownAfterUnknown => Counter = CounterBefore + 1

\* C14, amended: after a completed check cycle with a valid target the persisted
\* last state is the state the cycle ended in when that is up or down, and is
\* left as it was when the cycle ended unknown, so that of the cycles down,
\* unknown, down the second down is not counted again.
C14_LastStateIsKnown ==
  /\ CycleEnded =>
       LastState = IF last.state = "unknown" THEN LastStateBefore ELSE last.state
  /\ DownAfterUnknown =>
       Counter = CounterBefore +
                 (IF PrecedingKnown(seen, Len(seen) - 1) = "down" THEN 0 ELSE 1)

\* after a persisted down, an unknown cycle and a down cycle: not counted again
C14_Witness ==
  /\ boot.lastState = "down"
  /\ seen = <<"unknown", "down">>
  /\ LastState = "down"
  /\ Counter = boot.count

\* the latest cycle ended on the fetch-error path: its answer was not ok and had
\* no body text
EndedOnFetchError == CycleEnded /\ ~last.result.ok /\ BodyOf(last.result) = ""

\* C19: a check cycle that ends on the fetch-error path leaves the persisted
\* counter and last state as they were; it writes only the snippet, the
\* last-checked time and one history entry of state unknown; the next cycle
\* still reads the last state that was there, down after a down.
C19_FetchErrorFrame ==
  EndedOnFetchError =>
    /\ last.state = "unknown"
    /\ Counter = CounterBefore
    /\ LastState = LastStateBefore
    /\ \A k \in Keys \ {KEY_SNIPPET, KEY_LAST_CHECKED, KEY_HISTORY} :
         localStorage[k] = last.before[k]
    /\ Len(LogOf(localStorage)) = Len(LogOf(last.before)) + 1
    /\ SubSeq(LogOf(localStorage), 1, Len(LogOf(last.before))) = LogOf(last.before)
    /\ LastEntry.state = "unknown"
    /\ LastEntry.count = CounterBefore
    /\ \A c \in Slots : cyc[c].pc # "idle" => cyc[c].prevState = LastStateBefore

\* a relay's 503 answer without a body interrupted a down period, and the next
\* cycle has read down
C19_Witness ==
  /\ EndedOnFetchError
  /\ last.result.status = "503"
  /\ LastStateBefore = "down"
  /\ LastState = "down"
  /\ \E c \in Slots : cyc[c].pc # "idle" /\ cyc[c].prevState = "down"

----------------------------------------------------------------------------
(* C18: the order of the attempts of a cycle *)

\* the direct attempt of slot c completes with a status outside 200..299
DirectNotOk(c) ==
  /\ AttemptCompletes(c)
  /\ cyc[c].idx = 0
  /\ parseInt(cyc[c].status)[1] \notin 200..299

----------------------------------------------------------------------------
(* C15 and C16: check cycles that overlap *)

\* the latest cycle ended down having read, when it started, a previous state
\* other than down, and found down persisted when it returned: a cycle that
\* overlapped it had ended down in between
DownWrittenMeanwhile ==
  /\ CycleEnded
  /\ last.state = "down"
  /\ last.prevState # "down"
  /\ LastStateBefore = "down"
  /\ Len(seen) >= 2
  /\ seen[Len(seen) - 1] = "down"

\* C15: when check cycles overlap, both can read the previous state before
\* either writes down, and then the second to return counts the down period
\* again: the counter grows once more within one run of down cycles.
C15_OverlapCountsAgain ==
  DownWrittenMeanwhile => Counter = CounterBefore + 1

\* two overlapping cycles of one down period, after an up state: counted twice
C15_Witness ==
  /\ boot.lastState = "up"
  /\ seen = <<"down", "down">>
  /\ last.prevState = "up"
  /\ LastState = "down"
  /\ Counter = boot.count + 2

\* the check cycles in flight
InFlight == {c \in Slots : cyc[c].pc # "idle"}

\* C16: at most one check cycle is in flight at any time; a cycle triggered while
\* another has not completed is turned down or queued.
C16_OneCycleInFlight == Cardinality(InFlight) <= 1

----------------------------------------------------------------------------
(* C17: the end of an attempt *)

\* attempt i of the cycle of slot c is in flight: 0 is the direct request
AttemptInFlight(c, i) == cyc[c].pc # "idle" /\ cyc[c].idx = i

\* the attempts a cycle can make: the direct request, and a relay for the stored
\* one and for each built-in one
AttemptIndices == 0..(Len(BUILTIN_PROXIES) + 1)

\* C17: every transport attempt that has started completes in the end, with a
\* response or aborted by its timer, whether it stalls before the response
\* arrives or while the body is read; so every check cycle returns.
C17_AttemptsComplete ==
  /\ \A c \in Slots : \A i \in AttemptIndices :
       AttemptInFlight(c, i) ~> ~AttemptInFlight(c, i)
  /\ \A c \in Slots : (cyc[c].pc # "idle") ~> (cyc[c].pc = "idle")

----------------------------------------------------------------------------
(* C20: the relay list of a call *)

\* no relay stands twice in the list
NoDuplicates(proxies) ==
  \A i, j \in 1..Len(proxies) : i # j => proxies[i] # proxies[j]

\* the relays of the trail of attempts tried, in the order tried
RECURSIVE RelaysTried(_)
RelaysTried(tried) ==
  IF tried = <<>> THEN <<>>
  ELSE IF Head(tried).method = "proxy"
       THEN <<Head(tried).proxy>> \o RelaysTried(Tail(tried))
       ELSE RelaysTried(Tail(tried))

\* C20: whatever the proxyToUse argument and the stored relay override are, the
\* relay list that fetchTargetWithFallback builds holds no relay twice, and no
\* relay is tried twice in a cycle.
C20_NoDuplicateRelays ==
  /\ \A c \in Slots : NoDuplicates(cyc[c].proxies) /\ NoDuplicates(RelaysTried(cyc[c].tried))
  /\ NoDuplicates(RelaysTried(last.tried))

====
